---------------------------- MODULE Spec2Model ----------------------------
(***************************************************************************)
(* services/gemini.ts: the three operations of the AI service adapter      *)
(* (generatePrompts, analyzeImageStyle, generateImage), each one request   *)
(* to the remote service followed by the handling of its response.         *)
(*                                                                         *)
(* Strings are sequences: error messages and log lines are sequences of    *)
(* words (startsWith and includes compare word by word), a JSON text is    *)
(* the sequence of its lexical tokens, and the free text of the style      *)
(* analysis is a sequence of characters.                                   *)
(***************************************************************************)
EXTENDS Naturals, Sequences, FiniteSets

\* Number of invocations that can be in flight at once.
NumInv == 2
\* Longest free-text answer of the style analysis, in characters.
MaxTextLen == 2

Inv == 1..NumInv

PROMPT_GENERATION_MODEL == "gemini-2.5-flash"
IMAGE_GENERATION_MODEL == "imagen-3.0-generate-002"
promptSchema == [type |-> "OBJECT", required |-> <<"prompts">>]

-----------------------------------------------------------------------------
\* JavaScript values

\* An optional property: undefined, or present with value v.
Some(v) == [defined |-> TRUE, v |-> v]
UndefinedSeq == [defined |-> FALSE, v |-> <<>>]
UndefinedStr == [defined |-> FALSE, v |-> ""]

\* new Error(message) and a thrown value that is no Error (its text is not
\* reached through instanceof Error).
Error(message) == [isError |-> TRUE, text |-> message]
NonError(text) == [isError |-> FALSE, text |-> text]

\* How a block of code completes.
Return(v) == [kind |-> "return", value |-> v]
Throw(e) == [kind |-> "throw", error |-> e]

\* String.prototype.startsWith
StartsWith(s, p) == Len(s) >= Len(p) /\ SubSeq(s, 1, Len(p)) = p

\* String.prototype.includes
Includes(s, p) ==
    \E k \in 1..(Len(s) + 1) :
        k + Len(p) - 1 <= Len(s) /\ SubSeq(s, k, k + Len(p) - 1) = p

WhiteSpace == {" ", "\n"}

RECURSIVE TrimStart(_)
TrimStart(s) ==
    IF s # <<>> /\ Head(s) \in WhiteSpace THEN TrimStart(Tail(s)) ELSE s

RECURSIVE TrimEnd(_)
TrimEnd(s) ==
    IF s # <<>> /\ s[Len(s)] \in WhiteSpace
    THEN TrimEnd(SubSeq(s, 1, Len(s) - 1))
    ELSE s

\* String.prototype.trim
Trim(s) == TrimEnd(TrimStart(s))

-----------------------------------------------------------------------------
\* JSON.parse over the tokens of the text

JNull == [t |-> "null", n |-> 0, s |-> "", a |-> <<>>, o |-> <<>>]
JNum(n) == [t |-> "num", n |-> n, s |-> "", a |-> <<>>, o |-> <<>>]
JStr(s) == [t |-> "str", n |-> 0, s |-> s, a |-> <<>>, o |-> <<>>]
JArr(a) == [t |-> "arr", n |-> 0, s |-> "", a |-> a, o |-> <<>>]
JObj(o) == [t |-> "obj", n |-> 0, s |-> "", a |-> <<>>, o |-> o]

\* String literals and number literals of the texts, with their values.
StrTok == {"'prompts'", "'foo'", "'a'", "'b'", "''"}
StrVal(t) ==
    CASE t = "'prompts'" -> "prompts"
      [] t = "'foo'" -> "foo"
      [] t = "'a'" -> "a"
      [] t = "'b'" -> "b"
      [] OTHER -> ""
NumTok == {"0", "1"}
NumVal(t) == IF t = "1" THEN 1 ELSE 0

ParseFail == [ok |-> FALSE, val |-> JNull, pos |-> 0]
ParseOk(v, p) == [ok |-> TRUE, val |-> v, pos |-> p]

RECURSIVE ParseValue(_, _), ParseElements(_, _, _), ParseMembers(_, _, _)
ParseValue(ts, p) ==
    IF p > Len(ts) THEN ParseFail
    ELSE CASE ts[p] = "null" -> ParseOk(JNull, p + 1)
           [] ts[p] \in NumTok -> ParseOk(JNum(NumVal(ts[p])), p + 1)
           [] ts[p] \in StrTok -> ParseOk(JStr(StrVal(ts[p])), p + 1)
           [] ts[p] = "[" ->
                IF p + 1 <= Len(ts) /\ ts[p + 1] = "]"
                THEN ParseOk(JArr(<<>>), p + 2)
                ELSE ParseElements(ts, p + 1, <<>>)
           [] ts[p] = "{" ->
                IF p + 1 <= Len(ts) /\ ts[p + 1] = "}"
                THEN ParseOk(JObj(<<>>), p + 2)
                ELSE ParseMembers(ts, p + 1, <<>>)
           [] OTHER -> ParseFail

ParseElements(ts, p, acc) ==
    LET r == ParseValue(ts, p) IN
    IF ~r.ok \/ r.pos > Len(ts) THEN ParseFail
    ELSE IF ts[r.pos] = "," THEN ParseElements(ts, r.pos + 1, Append(acc, r.val))
    ELSE IF ts[r.pos] = "]" THEN ParseOk(JArr(Append(acc, r.val)), r.pos + 1)
    ELSE ParseFail

ParseMembers(ts, p, acc) ==
    IF p + 1 > Len(ts) \/ ts[p] \notin StrTok \/ ts[p + 1] # ":" THEN ParseFail
    ELSE LET r == ParseValue(ts, p + 2)
             m == Append(acc, [key |-> StrVal(ts[p]), val |-> r.val])
         IN  IF ~r.ok \/ r.pos > Len(ts) THEN ParseFail
             ELSE IF ts[r.pos] = "," THEN ParseMembers(ts, r.pos + 1, m)
             ELSE IF ts[r.pos] = "}" THEN ParseOk(JObj(m), r.pos + 1)
             ELSE ParseFail

SyntaxError == Error(<<"Unexpected", "token", "in JSON">>)

\* JSON.parse(text): the parsed value, or a SyntaxError.
JSONParse(ts) ==
    LET r == ParseValue(ts, 1) IN
    IF r.ok /\ r.pos = Len(ts) + 1 THEN Return(r.val) ELSE Throw(SyntaxError)

\* The truth value of a parsed JSON value (null, 0 and "" are falsy).
Truthy(v) ==
    CASE v.t = "null" -> FALSE
      [] v.t = "num" -> v.n # 0
      [] v.t = "str" -> v.s # ""
      [] OTHER -> TRUE

\* result.prompts: the last member named prompts of an object, undefined on
\* every other value.
PromptsProperty(v) ==
    LET idx == {k \in 1..Len(v.o) : v.o[k].key = "prompts"} IN
    IF v.t = "obj" /\ idx # {}
    THEN Some(v.o[CHOOSE k \in idx : \A j \in idx : j <= k].val)
    ELSE [defined |-> FALSE, v |-> JNull]

\* Array.isArray(result.prompts)
IsArrayProperty(p) == p.defined /\ p.v.t = "arr"

-----------------------------------------------------------------------------
\* Messages

MsgEmptyResponse ==
    <<"The", "AI", "returned",
      "an empty response. This can happen if the script is too short, vague, or contains content that goes against the safety policy.">>
MsgSafety ==
    <<"The", "script", "or", "style",
      "contains content that violates safety policies. Please revise your input and try again.">>
MsgRecitation ==
    <<"The", "response", "was", "blocked",
      "due to potential recitation issues. Try rephrasing your script.">>
MsgStopped(finishReason) ==
    <<"Prompt", "generation", "stopped", "unexpectedly. Reason:", finishReason,
      ". Please check your script content.">>
MsgInvalidStructure ==
    <<"The", "AI", "returned",
      "a response with an invalid structure. Please try again.">>
MsgNotJSON ==
    <<"The", "AI", "returned",
      "a response that was not valid JSON. This may be a temporary issue, please try again.">>
MsgGenericPrompts ==
    <<"Failed to generate prompts from the script due to an unexpected AI service error.">>
MsgAnalyzeFailed == <<"Failed to analyze the reference image style.">>
MsgNoImage == <<"The API did not return an image.">>
MsgBlocked ==
    <<"This prompt was blocked for safety reasons. Please try rephrasing it.">>
MsgImageFailed == <<"Image generation failed.">>
MsgUnknown == <<"An unknown error occurred.">>

\* The TypeError of reading a property of undefined.
TypeError == Error(<<"Cannot", "read", "properties", "of", "undefined">>)

\* console.error lines, by their fixed first argument.
LogEmptyText == "AI response text is empty or undefined. Full response:"
LogParse == "Failed to parse AI response as JSON:"
LogPrompts == "Error during prompt generation:"
LogAnalyze == "Error analyzing image style:"
LogImage == "Image generation failed for prompt:"

\* What a block leaves behind: the lines it logged and how it completed.
Ran(log, completion) == [log |-> log, completion |-> completion]

-----------------------------------------------------------------------------
\* generatePrompts

\* The instruction text: the niche line is present only for a non-empty niche.
requestPrompt(script, style, niche) ==
    <<"System Instruction: ... **Context & Style:**">>
    \o (IF niche # "" THEN <<"- **Topic/Niche:** ", niche, "\n">> ELSE <<>>)
    \o <<"- **Visual Style:** ", style,
         "**CRITICAL INSTRUCTIONS:** ... **SCRIPT TO ANALYZE:** ---", script, "---">>

PromptsRequest(args) ==
    [method |-> "generateContent", model |-> PROMPT_GENERATION_MODEL,
     contents |-> requestPrompt(args.script, args.style, args.niche),
     config |-> [responseMimeType |-> "application/json",
                 responseSchema |-> promptSchema]]

\* response.candidates?.[0]?.finishReason
FinishReasonOf(response) ==
    IF response.candidates.defined /\ Len(response.candidates.v) > 0
    THEN response.candidates.v[1].finishReason
    ELSE UndefinedStr

\* if (!jsonText) { ... throw new Error(errorMessage) }
EmptyTextMessage(finishReason) ==
    IF finishReason.defined /\ finishReason.v = "SAFETY" THEN MsgSafety
    ELSE IF finishReason.defined /\ finishReason.v = "RECITATION" THEN MsgRecitation
    ELSE IF finishReason.defined /\ finishReason.v # "" /\ finishReason.v # "STOP"
         THEN MsgStopped(finishReason.v)
    ELSE MsgEmptyResponse

\* The body of the inner try: parse, then accept an array-valued prompts.
PromptsParseTry(jsonText, sent) ==
    LET parsed == JSONParse(jsonText) IN
    IF parsed.kind = "throw" THEN parsed
    ELSE IF Truthy(parsed.value) /\ IsArrayProperty(PromptsProperty(parsed.value))
         THEN Return([prompts |-> PromptsProperty(parsed.value).v.a,
                      requestPrompt |-> sent])
    ELSE Throw(Error(MsgInvalidStructure))

\* catch (parseError): whatever the inner try threw is logged and replaced.
PromptsParseCatch(parseError) == Ran(<<LogParse>>, Throw(Error(MsgNotJSON)))

\* The body of the outer try, from the settled request on.
PromptsTry(args, reply) ==
    IF reply.kind = "exception" THEN Ran(<<>>, Throw(reply.err))
    ELSE IF ~reply.text.defined \/ reply.text.v = <<>>
         THEN Ran(<<LogEmptyText>>,
                  Throw(Error(EmptyTextMessage(FinishReasonOf(reply)))))
    ELSE LET t == PromptsParseTry(reply.text.v,
                                  requestPrompt(args.script, args.style, args.niche))
         IN  IF t.kind = "throw" THEN PromptsParseCatch(t.error) ELSE Ran(<<>>, t)

\* The prefixes with the last one forgotten.
KnownPrefixesWithoutStopped ==
    { <<"The", "AI", "returned">>,
      <<"The", "script", "or", "style">>,
      <<"The", "response", "was", "blocked">> }

\* The descriptive prefixes the outer catch lets through.
KnownPrefixes ==
    { <<"The", "AI", "returned">>,
      <<"The", "script", "or", "style">>,
      <<"The", "response", "was", "blocked">>,
      <<"Prompt", "generation", "stopped">> }

HasKnownPrefix(error) ==
    error.isError /\ \E p \in KnownPrefixes : StartsWith(error.text, p)

\* A catch that re-throws whatever it caught.
PromptsCatchRethrow(error) == Ran(<<LogPrompts>>, Throw(error))

\* catch (error): log, re-throw the descriptive errors, replace the others.
PromptsCatch(error) ==
    Ran(<<LogPrompts>>,
        IF HasKnownPrefix(error) THEN Throw(error)
        ELSE Throw(Error(MsgGenericPrompts)))

generatePrompts(args, reply) ==
    LET t == PromptsTry(args, reply) IN
    IF t.completion.kind = "throw"
    THEN LET c == PromptsCatch(t.completion.error)
         IN  Ran(t.log \o c.log, c.completion)
    ELSE t

-----------------------------------------------------------------------------
\* analyzeImageStyle

AnalyzeRequest(args) ==
    [method |-> "generateContent", model |-> PROMPT_GENERATION_MODEL,
     contents |-> <<[inlineData |-> [mimeType |-> args.mimeType, data |-> args.base64]],
                    [text |-> "Analyze the artistic style of this image. ..."]>>]

\* return response.text.trim()
AnalyzeTry(reply) ==
    IF reply.kind = "exception" THEN Throw(reply.err)
    ELSE IF ~reply.text.defined THEN Throw(TypeError)
    ELSE Return(Trim(reply.text.v))

AnalyzeCatch(error) == Ran(<<LogAnalyze>>, Throw(Error(MsgAnalyzeFailed)))

analyzeImageStyle(args, reply) ==
    LET t == AnalyzeTry(reply) IN
    IF t.kind = "throw" THEN AnalyzeCatch(t.error) ELSE Ran(<<>>, t)

-----------------------------------------------------------------------------
\* generateImage

ImageRequest(args) ==
    [method |-> "generateImages", model |-> IMAGE_GENERATION_MODEL,
     prompt |-> args.prompt,
     config |-> [numberOfImages |-> 1, outputMimeType |-> "image/jpeg",
                 aspectRatio |-> args.aspectRatio]]

\* The two fields of the returned pair: null, undefined or a string.
Null == [t |-> "null", s |-> "", m |-> <<>>]
Undefined == [t |-> "undefined", s |-> "", m |-> <<>>]
Bytes(s) == [t |-> "string", s |-> s, m |-> <<>>]
Text(m) == [t |-> "string", s |-> "", m |-> m]

ImageResult(base64, error) == [base64 |-> base64, error |-> error]

\* response.generatedImages[0].image.imageBytes, as the value it evaluates to.
FirstImageBytes(generatedImages) ==
    IF ~generatedImages[1].image.defined THEN Throw(TypeError)
    ELSE IF ~generatedImages[1].image.v.imageBytes.defined THEN Return(Undefined)
    ELSE Return(Bytes(generatedImages[1].image.v.imageBytes.v))

ImageTry(reply) ==
    IF reply.kind = "exception" THEN Throw(reply.err)
    ELSE IF reply.generatedImages.defined /\ Len(reply.generatedImages.v) > 0
         THEN LET b == FirstImageBytes(reply.generatedImages.v) IN
              IF b.kind = "throw" THEN b
              ELSE Return(ImageResult(b.value, Null))
    ELSE Return(ImageResult(Null, Text(MsgNoImage)))

\* err instanceof Error ? err.message : 'An unknown error occurred.'
ErrorMessageOf(err) == IF err.isError THEN err.text ELSE MsgUnknown

\* A comparison with the whole message in place of a search in it.
IsSafetyRejectionExact(errorMessage) ==
    \/ errorMessage = <<"sensitive", "words">>
    \/ errorMessage = <<"Responsible", "AI", "practices">>
    \/ errorMessage = <<"prompt", "contains", "sensitive", "words">>

IsSafetyRejection(errorMessage) ==
    \/ Includes(errorMessage, <<"sensitive", "words">>)
    \/ Includes(errorMessage, <<"Responsible", "AI", "practices">>)
    \/ Includes(errorMessage, <<"prompt", "contains", "sensitive", "words">>)

\* A catch that reads err.message of whatever was thrown: on a value that has
\* none, errorMessage is undefined and errorMessage.includes throws.
ImageCatchUnguarded(err) ==
    Ran(<<LogImage>>,
        IF ~err.isError THEN Throw(TypeError)
        ELSE IF IsSafetyRejection(err.text)
        THEN Return(ImageResult(Null, Text(MsgBlocked)))
        ELSE Return(ImageResult(Null, Text(MsgImageFailed))))

ImageCatch(err) ==
    Ran(<<LogImage>>,
        IF IsSafetyRejection(ErrorMessageOf(err))
        THEN Return(ImageResult(Null, Text(MsgBlocked)))
        ELSE Return(ImageResult(Null, Text(MsgImageFailed))))

generateImage(args, reply) ==
    LET t == ImageTry(reply) IN
    IF t.kind = "throw" THEN ImageCatch(t.error) ELSE Ran(<<>>, t)

-----------------------------------------------------------------------------
\* The remote service: what a request can settle with

NoValue == NonError(<<>>)

\* The request is rejected: the await throws e.
Exception(e) ==
    [kind |-> "exception", err |-> e, text |-> UndefinedSeq,
     candidates |-> UndefinedSeq, generatedImages |-> UndefinedSeq]

\* A generateContent response: response.text and response.candidates.
ContentResponse(text, candidates) ==
    [kind |-> "response", err |-> NoValue, text |-> text,
     candidates |-> candidates, generatedImages |-> UndefinedSeq]

\* A generateImages response: response.generatedImages.
ImagesResponse(generatedImages) ==
    [kind |-> "response", err |-> NoValue, text |-> UndefinedSeq,
     candidates |-> UndefinedSeq, generatedImages |-> generatedImages]

NoReply ==
    [kind |-> "none", err |-> NoValue, text |-> UndefinedSeq,
     candidates |-> UndefinedSeq, generatedImages |-> UndefinedSeq]

Exceptions ==
    { Error(<<"fetch", "failed">>),
      Error(<<"429:", "The", "AI", "returned", "too many requests">>),
      Error(<<"The", "AI", "service", "is unavailable">>),
      Error(<<"The", "response", "was", "blocked", "by the gateway 10.0.0.7">>),
      Error(<<"Request failed:", "prompt", "contains", "sensitive", "words">>),
      Error(<<"violates our", "Responsible", "AI", "practices", "policy">>),
      Error(<<"sensitive", "content in", "words">>),
      NonError(<<"sensitive", "words">>),
      NonError(<<"The", "AI", "returned", "nothing">>) }

Candidate(finishReason) == [finishReason |-> finishReason]

CandidateLists ==
    { UndefinedSeq, Some(<<>>), Some(<<Candidate(UndefinedStr)>>),
      Some(<<Candidate(Some("STOP"))>>), Some(<<Candidate(Some("SAFETY"))>>),
      Some(<<Candidate(Some("RECITATION"))>>), Some(<<Candidate(Some("MAX_TOKENS"))>>),
      Some(<<Candidate(Some("OTHER"))>>),
      Some(<<Candidate(Some("SAFETY")), Candidate(Some("STOP"))>>) }

JsonTexts ==
    { <<"{", "'prompts'", ":", "[", "'a'", ",", "'b'", "]", "}">>,
      <<"{", "'prompts'", ":", "[", "]", "}">>,
      <<"{", "'prompts'", ":", "[", "1", ",", "null", "]", "}">>,
      <<"{", "'prompts'", ":", "[", "'a'", ",", "[", "'b'", "]", "]", "}">>,
      <<"{", "'prompts'", ":", "'a'", "}">>,
      <<"{", "'prompts'", ":", "'a'", ",", "'prompts'", ":", "[", "'b'", "]", "}">>,
      <<"{", "'foo'", ":", "1", "}">>,
      <<"{", "}">>,
      <<"[", "'a'", "]">>,
      <<"null">>,
      <<"0">>,
      <<"''">>,
      <<"'a'">>,
      <<"not", "json">>,
      <<"{", "'prompts'", ":", "[", "'a'", ",">>,
      <<"{", "'prompts'", ":", "[", "'a'", "]", "}", "}">> }

\* The free texts of at most MaxTextLen characters.
FreeTexts ==
    UNION { [1..n -> {" ", "a", "\n"}] : n \in 0..MaxTextLen }

Image(imageBytes) == [imageBytes |-> imageBytes]
GeneratedImage(image) == [image |-> image]
NoImageObject == [defined |-> FALSE, v |-> Image(UndefinedStr)]

ImageLists ==
    { UndefinedSeq, Some(<<>>),
      Some(<<GeneratedImage(NoImageObject)>>),
      Some(<<GeneratedImage(Some(Image(UndefinedStr)))>>),
      Some(<<GeneratedImage(Some(Image(Some(""))))>>),
      Some(<<GeneratedImage(Some(Image(Some("/9j/4AAQ"))))>>),
      Some(<<GeneratedImage(Some(Image(Some("/9j/4AAQ")))),
             GeneratedImage(Some(Image(Some("iVBORw0K"))))>>),
      Some(<<GeneratedImage(Some(Image(Some("/9j/4AAQ")))),
             GeneratedImage(NoImageObject)>>) }

Ops == {"generatePrompts", "analyzeImageStyle", "generateImage"}

\* Everything a request of each operation can settle with.
AllReplies ==
    [o \in Ops |->
        {Exception(e) : e \in Exceptions} \cup
        CASE o = "generatePrompts" ->
                {ContentResponse(t, c) : t \in {UndefinedSeq, Some(<<>>)},
                                         c \in CandidateLists}
                \cup {ContentResponse(Some(t), Some(<<Candidate(Some("STOP"))>>)) :
                        t \in JsonTexts}
          [] o = "analyzeImageStyle" ->
                {ContentResponse(UndefinedSeq, UndefinedSeq)}
                \cup {ContentResponse(Some(t), Some(<<Candidate(Some("STOP"))>>)) :
                        t \in FreeTexts}
          [] OTHER -> {ImagesResponse(g) : g \in ImageLists}]

\* One reply of each shape per operation, for several invocations in flight.
SomeReplies ==
    [o \in Ops |->
        CASE o = "generatePrompts" ->
                { Exception(Error(<<"fetch", "failed">>)),
                  ContentResponse(Some(<<>>), Some(<<Candidate(Some("SAFETY"))>>)),
                  ContentResponse(Some(<<"{", "'prompts'", ":", "[", "'a'", "]", "}">>),
                                  Some(<<Candidate(Some("STOP"))>>)) }
          [] o = "analyzeImageStyle" ->
                { Exception(Error(<<"fetch", "failed">>)),
                  ContentResponse(Some(<<" ", "a">>), Some(<<Candidate(Some("STOP"))>>)) }
          [] OTHER ->
                { Exception(Error(<<"prompt", "contains", "sensitive", "words">>)),
                  ImagesResponse(Some(<<>>)),
                  ImagesResponse(Some(<<GeneratedImage(Some(Image(Some("/9j/4AAQ"))))>>)) }]

\* The arguments callers pass.
PromptsArgs ==
    [script : {"INT. LAB - NIGHT"}, style : {"watercolor"}, niche : {"", "history"}]
AnalyzeArgs == [base64 : {"iVBORw0K"}, mimeType : {"image/png"}]
ImageArgs == [prompt : {"A lone astronaut"}, aspectRatio : {"1:1", "16:9"}]

-----------------------------------------------------------------------------
\* Invocations

VARIABLES
    pc,        \* where each invocation is: idle, awaiting, settled, done
    call,      \* the operation and arguments of each invocation
    received,  \* the requests the remote service received from each invocation
    reply,     \* what each invocation's request settled with
    console,   \* the console.error lines each invocation wrote, in order
    outcome    \* how each invocation completed

vars == <<pc, call, received, reply, console, outcome>>

NoCall == [op |-> "none", args |-> [none |-> TRUE]]
Pending == [kind |-> "pending"]

Init ==
    /\ pc = [i \in Inv |-> "idle"]
    /\ call = [i \in Inv |-> NoCall]
    /\ received = [i \in Inv |-> <<>>]
    /\ reply = [i \in Inv |-> NoReply]
    /\ console = [i \in Inv |-> <<>>]
    /\ outcome = [i \in Inv |-> Pending]

\* The code after the await, by operation.
Handle(c, r) ==
    CASE c.op = "generatePrompts" -> generatePrompts(c.args, r)
      [] c.op = "analyzeImageStyle" -> analyzeImageStyle(c.args, r)
      [] OTHER -> generateImage(c.args, r)

\* An invocation runs to its await: the request is dispatched.
CallGeneratePrompts(i) ==
    /\ pc[i] = "idle"
    /\ \E a \in PromptsArgs :
        /\ call' = [call EXCEPT ![i] = [op |-> "generatePrompts", args |-> a]]
        /\ received' = [received EXCEPT ![i] = Append(@, PromptsRequest(a))]
    /\ pc' = [pc EXCEPT ![i] = "awaiting"]
    /\ UNCHANGED <<reply, console, outcome>>

CallAnalyzeImageStyle(i) ==
    /\ pc[i] = "idle"
    /\ \E a \in AnalyzeArgs :
        /\ call' = [call EXCEPT ![i] = [op |-> "analyzeImageStyle", args |-> a]]
        /\ received' = [received EXCEPT ![i] = Append(@, AnalyzeRequest(a))]
    /\ pc' = [pc EXCEPT ![i] = "awaiting"]
    /\ UNCHANGED <<reply, console, outcome>>

CallGenerateImage(i) ==
    /\ pc[i] = "idle"
    /\ \E a \in ImageArgs :
        /\ call' = [call EXCEPT ![i] = [op |-> "generateImage", args |-> a]]
        /\ received' = [received EXCEPT ![i] = Append(@, ImageRequest(a))]
    /\ pc' = [pc EXCEPT ![i] = "awaiting"]
    /\ UNCHANGED <<reply, console, outcome>>

\* The remote service answers invocation i's request, or the request fails.
Settle(i, replies) ==
    /\ pc[i] = "awaiting"
    /\ \E r \in replies[call[i].op] : reply' = [reply EXCEPT ![i] = r]
    /\ pc' = [pc EXCEPT ![i] = "settled"]
    /\ UNCHANGED <<call, received, console, outcome>>

\* A response kept in one variable of the module: an invocation resumes with
\* whatever settled and was not yet consumed.
AwaitedShared(i) ==
    IF \E j \in Inv : j # i /\ pc[j] = "settled"
    THEN reply[CHOOSE j \in Inv : j # i /\ pc[j] = "settled"]
    ELSE reply[i]

\* const response = await ...: what invocation i resumes with.
Awaited(i) == reply[i]

\* The invocation resumes and runs, without a further await, to its end.
Resume(i) ==
    /\ pc[i] = "settled"
    /\ LET r == Handle(call[i], Awaited(i)) IN
        /\ console' = [console EXCEPT ![i] = @ \o r.log]
        /\ outcome' = [outcome EXCEPT ![i] = r.completion]
    /\ pc' = [pc EXCEPT ![i] = "done"]
    /\ UNCHANGED <<call, received, reply>>

\* One invocation, with everything its request can settle with.
Next ==
    \/ CallGeneratePrompts(1)
    \/ CallAnalyzeImageStyle(1)
    \/ CallGenerateImage(1)
    \/ Settle(1, AllReplies)
    \/ Resume(1)

Spec == Init /\ [][Next]_vars

\* NumInv invocations in flight at once, in every interleaving.
NextConcurrent ==
    \E i \in Inv :
        \/ CallGeneratePrompts(i)
        \/ CallAnalyzeImageStyle(i)
        \/ CallGenerateImage(i)
        \/ Settle(i, SomeReplies)
        \/ Resume(i)

SpecConcurrent == Init /\ [][NextConcurrent]_vars

-----------------------------------------------------------------------------
\* Properties

\* Invocation i ran operation o to its end.
Done(i, o) == pc[i] = "done" /\ call[i].op = o

\* The request of invocation i was answered with a response with no text.
EmptyText(i) ==
    reply[i].kind = "response" /\ (~reply[i].text.defined \/ reply[i].text.v = <<>>)

\* C1: generateImage never throws: whatever its request settled with (images,
\* no images, a first entry without an image object, any thrown value), a
\* finished invocation has returned a pair.
C1_GenerateImageNeverThrows ==
    \A i \in Inv :
        Done(i, "generateImage") =>
            /\ outcome[i].kind = "return"
            /\ DOMAIN outcome[i].value = {"base64", "error"}

\* A finished generateImage whose dispatch threw a value that is no Error.
C1_Witness ==
    \E i \in Inv :
        /\ Done(i, "generateImage")
        /\ reply[i].kind = "exception"
        /\ ~reply[i].err.isError
        /\ outcome[i].kind = "return"

\* C2: every pair generateImage returns has exactly one field populated:
\* base64 a string and error null, or base64 null and error a string.
C2_ExactlyOnePopulated ==
    \A i \in Inv :
        Done(i, "generateImage") /\ outcome[i].kind = "return" =>
            \/ outcome[i].value.base64.t = "string" /\ outcome[i].value.error.t = "null"
            \/ outcome[i].value.base64.t = "null" /\ outcome[i].value.error.t = "string"

\* C3: a non-empty text that parses as JSON but has no array-valued prompts
\* makes generatePrompts fail with the invalid-structure message.
C3_InvalidStructureMessage ==
    \A i \in Inv :
        ( /\ Done(i, "generatePrompts")
          /\ reply[i].kind = "response"
          /\ ~EmptyText(i)
          /\ JSONParse(reply[i].text.v).kind = "return"
          /\ LET result == JSONParse(reply[i].text.v).value IN
                ~(result.t = "obj" /\ \E k \in 1..Len(result.o) :
                      result.o[k].key = "prompts" /\ result.o[k].val.t = "arr") )
        => /\ outcome[i].kind = "throw"
           /\ outcome[i].error.text = MsgInvalidStructure
           /\ MsgInvalidStructure # MsgNotJSON

\* The raised value is an Error whose message starts with one of the four
\* descriptive prefixes.
StartsDescriptive(e) ==
    /\ e.isError
    /\ \/ StartsWith(e.text, <<"The", "AI", "returned">>)
       \/ StartsWith(e.text, <<"The", "script", "or", "style">>)
       \/ StartsWith(e.text, <<"The", "response", "was", "blocked">>)
       \/ StartsWith(e.text, <<"Prompt", "generation", "stopped">>)

\* C4, as claimed: whatever the dispatch of generatePrompts raised, the caller
\* gets exactly the generic message.
C4_AlwaysGeneric ==
    \A i \in Inv :
        Done(i, "generatePrompts") /\ reply[i].kind = "exception" =>
            outcome[i] = Throw(Error(MsgGenericPrompts))

\* C4, amended: when the dispatch of generatePrompts raises, the caller gets
\* exactly the generic message, unless the raised value is an Error whose
\* message starts with one of the four descriptive prefixes: that Error is
\* re-thrown unchanged.
C4_GenericUnlessDescriptivePrefix ==
    \A i \in Inv :
        Done(i, "generatePrompts") /\ reply[i].kind = "exception" =>
            IF StartsDescriptive(reply[i].err)
            THEN outcome[i] = Throw(reply[i].err)
            ELSE outcome[i] = Throw(Error(MsgGenericPrompts))

\* A finished generatePrompts whose dispatch raised an Error with a message
\* of its own, replaced by the generic message.
C4_Witness ==
    \E i \in Inv :
        /\ Done(i, "generatePrompts")
        /\ reply[i].kind = "exception"
        /\ reply[i].err.isError
        /\ ~StartsDescriptive(reply[i].err)
        /\ outcome[i] = Throw(Error(MsgGenericPrompts))
        /\ reply[i].err.text # MsgGenericPrompts

\* C5: analyzeImageStyle either returns a non-empty string with no leading or
\* trailing whitespace, or raises exactly the failed-to-analyze error; an
\* undefined, empty or whitespace-only text leads to the error.
C5_TrimmedNonEmptyOrError ==
    \A i \in Inv :
        Done(i, "analyzeImageStyle") =>
            /\ \/ /\ outcome[i].kind = "return"
                  /\ outcome[i].value # <<>>
                  /\ outcome[i].value[1] \notin WhiteSpace
                  /\ outcome[i].value[Len(outcome[i].value)] \notin WhiteSpace
               \/ outcome[i] = Throw(Error(MsgAnalyzeFailed))
            /\ ( /\ reply[i].kind = "response"
                 /\ \/ ~reply[i].text.defined
                    \/ \A k \in 1..Len(reply[i].text.v) : reply[i].text.v[k] \in WhiteSpace )
               => outcome[i] = Throw(Error(MsgAnalyzeFailed))

\* C6: with an empty or undefined text generatePrompts always fails, with the
\* message the first candidate's finish reason selects: SAFETY, RECITATION,
\* another reason that is not STOP (named in the message), or none or STOP;
\* the message reaches the caller unchanged.
C6_EmptyTextMessageByFinishReason ==
    \A i \in Inv :
        Done(i, "generatePrompts") /\ EmptyText(i) =>
            LET c == reply[i].candidates
                present == c.defined /\ Len(c.v) > 0 /\ c.v[1].finishReason.defined
                reason == c.v[1].finishReason.v
            IN  /\ outcome[i].kind = "throw"
                /\ outcome[i].error.isError
                /\ outcome[i].error.text =
                      IF present /\ reason = "SAFETY" THEN MsgSafety
                      ELSE IF present /\ reason = "RECITATION" THEN MsgRecitation
                      ELSE IF present /\ reason # "STOP" THEN MsgStopped(reason)
                      ELSE MsgEmptyResponse

\* A finished generatePrompts whose empty response stopped for MAX_TOKENS.
C6_Witness ==
    \E i \in Inv :
        /\ Done(i, "generatePrompts")
        /\ EmptyText(i)
        /\ reply[i].candidates.defined
        /\ Len(reply[i].candidates.v) > 0
        /\ reply[i].candidates.v[1].finishReason = Some("MAX_TOKENS")
        /\ outcome[i] = Throw(Error(MsgStopped("MAX_TOKENS")))

\* C7: generateImage maps its failures to three fixed pairs: no image in the
\* response, an Error whose message contains "sensitive words" or
\* "Responsible AI practices", any other thrown value; the error returned is
\* one of the three fixed strings, never the text of what was thrown.
C7_FixedFailureResults ==
    \A i \in Inv :
        Done(i, "generateImage") =>
            /\ ( /\ reply[i].kind = "response"
                 /\ ~reply[i].generatedImages.defined \/ reply[i].generatedImages.v = <<>> )
               => outcome[i] = Return(ImageResult(Null, Text(MsgNoImage)))
            /\ reply[i].kind = "exception" =>
                  IF /\ reply[i].err.isError
                     /\ \/ Includes(reply[i].err.text, <<"sensitive", "words">>)
                        \/ Includes(reply[i].err.text, <<"Responsible", "AI", "practices">>)
                  THEN outcome[i] = Return(ImageResult(Null, Text(MsgBlocked)))
                  ELSE outcome[i] = Return(ImageResult(Null, Text(MsgImageFailed)))
            /\ ( outcome[i].kind = "return" /\ outcome[i].value.error.t # "null" )
               => /\ outcome[i].value.base64 = Null
                  /\ outcome[i].value.error.t = "string"
                  /\ outcome[i].value.error.m \in {MsgNoImage, MsgBlocked, MsgImageFailed}

\* A finished generateImage whose dispatch raised an Error that mentions
\* sensitive words inside a longer message.
C7_Witness ==
    \E i \in Inv :
        /\ Done(i, "generateImage")
        /\ reply[i].kind = "exception"
        /\ reply[i].err.isError
        /\ Includes(reply[i].err.text, <<"sensitive", "words">>)
        /\ reply[i].err.text # <<"sensitive", "words">>
        /\ outcome[i] = Return(ImageResult(Null, Text(MsgBlocked)))

\* The invocation reported a failure to its caller.
Failed(i) ==
    /\ pc[i] = "done"
    /\ \/ outcome[i].kind = "throw"
       \/ /\ call[i].op = "generateImage"
          /\ outcome[i].kind = "return"
          /\ outcome[i].value.error.t # "null"

\* C8: no invocation of the three operations reports a failure to its caller
\* without having written a log line first.
C8_FailureIsLogged ==
    \A i \in Inv : Failed(i) => console[i] # <<>>

\* C9: the prompts generatePrompts returns are all strings.
C9_PromptsAreStrings ==
    \A i \in Inv :
        Done(i, "generatePrompts") /\ outcome[i].kind = "return" =>
            \A k \in 1..Len(outcome[i].value.prompts) :
                outcome[i].value.prompts[k].t = "str"

\* The request an invocation sends, from its own arguments.
OwnRequest(c) ==
    CASE c.op = "generatePrompts" -> PromptsRequest(c.args)
      [] c.op = "analyzeImageStyle" -> AnalyzeRequest(c.args)
      [] OTHER -> ImageRequest(c.args)

\* C10: invocations in flight at the same time do not interfere: each sends
\* exactly one request, built from its own arguments, and completes as its own
\* arguments and the reply to its own request decide, whatever the others do.
C10_NoInterference ==
    \A i \in Inv :
        /\ Len(received[i]) = (IF pc[i] = "idle" THEN 0 ELSE 1)
        /\ pc[i] # "idle" => received[i][1] = OwnRequest(call[i])
        /\ pc[i] = "done" =>
              /\ outcome[i] = Handle(call[i], reply[i]).completion
              /\ console[i] = Handle(call[i], reply[i]).log

\* An invocation finished while another one's reply, a different one, had
\* settled and was waiting to be consumed.
C10_Witness ==
    \E i, j \in Inv :
        /\ i # j
        /\ pc[i] = "done"
        /\ pc[j] = "settled"
        /\ call[i].op = call[j].op
        /\ reply[i] # reply[j]
        /\ outcome[i].kind = "return"

=============================================================================
